---- MODULE Spec2Model ----
(***************************************************************************)
(* A model of actions-metrics/parser.py: the column-name normalizer, the   *)
(* string-cell cleaner, the CSV loader's numeric coercion, the merge of    *)
(* the usage and performance tables, the row filter and the sorter.        *)
(*                                                                         *)
(* Text is a sequence of one-character strings, so that the regular        *)
(* expressions of the source act on characters.  A DataFrame is a sequence *)
(* of columns (loader) or a record of a column list and a row list         *)
(* (merge, filter, sort).  Every function of the source is an operator;    *)
(* every specification draws the function's inputs in Init and applies the *)
(* function in its actions.                                                *)
(***************************************************************************)
EXTENDS Naturals, Integers, Sequences, FiniteSets, TLC

VARIABLES pc, arg, res, build

vars == <<pc, arg, res, build>>

(***************************************************************************)
(* Characters                                                              *)
(***************************************************************************)
Uppers == <<"A","B","C","D","E","F","G","H","I","J","K","L","M",
            "N","O","P","Q","R","S","T","U","V","W","X","Y","Z">>
Lowers == <<"a","b","c","d","e","f","g","h","i","j","k","l","m",
            "n","o","p","q","r","s","t","u","v","w","x","y","z">>
Digits == {"0","1","2","3","4","5","6","7","8","9"}

Range(f) == {f[i] : i \in DOMAIN f}

\* [0-9A-Za-z]
Alnums == Digits \cup Range(Uppers) \cup Range(Lowers)

IsAlnum(ch) == ch \in Alnums

\* ['\"]
Quotes == {"'", "\""}

IsQuote(ch) == ch \in Quotes

\* the characters Python's str.strip() removes, among the ASCII ones: the
\* codes 9 to 13, 28 to 31 and 32, the control characters written raw (it
\* also removes \x85, \xa0 and the other Unicode spaces, which no character
\* of this module stands for)
Spaces == {" ", "\t", "\n", "", "\f", "\r", "", "", "", ""}

IsSpace(ch) == ch \in Spaces

\* the characters polars' .str.strip_chars() removes when given no argument,
\* among the ASCII ones: the codes 9 to 13 and 32, not 28 to 31 (Unicode's
\* White_Space, as Rust's trim has it; \x85, \xa0 and the other Unicode spaces
\* belong to it too)
TrimChars == {" ", "\t", "\n", "", "\f", "\r"}

\* str.lower() on one character
LowerChar(ch) ==
    IF \E i \in DOMAIN Uppers : Uppers[i] = ch
    THEN Lowers[CHOOSE i \in DOMAIN Uppers : Uppers[i] = ch]
    ELSE ch

Lower(s) == [i \in DOMAIN s |-> LowerChar(s[i])]

\* all texts over the characters cs of length at most n
RECURSIVE TextsUpTo(_, _)
TextsUpTo(cs, n) ==
    IF n = 0 THEN {<<>>}
    ELSE LET shorter == TextsUpTo(cs, n - 1)
         IN  shorter \cup {<<c>> \o t : c \in cs, t \in {u \in shorter : Len(u) = n - 1}}

(***************************************************************************)
(* Stripping                                                               *)
(***************************************************************************)
\* s without its longest prefix of characters of drop
RECURSIVE LStrip(_, _)
LStrip(s, drop) ==
    IF s # <<>> /\ Head(s) \in drop THEN LStrip(Tail(s), drop) ELSE s

\* s without its longest suffix of characters of drop
RECURSIVE RStrip(_, _)
RStrip(s, drop) ==
    IF s # <<>> /\ s[Len(s)] \in drop
    THEN RStrip(SubSeq(s, 1, Len(s) - 1), drop)
    ELSE s

\* str.strip() with no argument
StripSpace(s) == RStrip(LStrip(s, Spaces), Spaces)

\* .str.strip_chars() with no argument
strip_chars(s) == RStrip(LStrip(s, TrimChars), TrimChars)

\* re.sub(r"^[\'\"]+|[\'\"]+$", "", s): the leading run and the trailing run
StripQuoteRuns(s) == RStrip(LStrip(s, Quotes), Quotes)

\* str.strip("_")
StripUnderscores(s) == RStrip(LStrip(s, {"_"}), {"_"})

\* s without its longest prefix of characters outside [0-9A-Za-z]
RECURSIVE SkipNonAlnum(_)
SkipNonAlnum(s) ==
    IF s # <<>> /\ ~IsAlnum(Head(s)) THEN SkipNonAlnum(Tail(s)) ELSE s

\* re.sub(r"[^0-9A-Za-z]+", "_", s): every maximal run becomes one "_"
RECURSIVE SubNonAlnum(_)
SubNonAlnum(s) ==
    IF s = <<>> THEN <<>>
    ELSE IF IsAlnum(Head(s)) THEN <<Head(s)>> \o SubNonAlnum(Tail(s))
    ELSE <<"_">> \o SubNonAlnum(SkipNonAlnum(s))

\* re.sub(r"__+", "_", s): every run of two or more "_" becomes one "_"
RECURSIVE CollapseUnderscores(_)
CollapseUnderscores(s) ==
    IF s = <<>> THEN <<>>
    ELSE IF Head(s) = "_" THEN <<"_">> \o CollapseUnderscores(LStrip(s, {"_"}))
    ELSE <<Head(s)>> \o CollapseUnderscores(Tail(s))

(***************************************************************************)
(* _clean_colname                                                          *)
(***************************************************************************)
\* Python's None given as a name (not a text: its one element is no character)
None == <<"None">>

\* a variant that strips the underscores before the substitution makes them
CleanColnameStripEarly(name) ==
    IF name = None THEN <<>>
    ELSE LET stripped == StripSpace(name)
             unquoted == StripQuoteRuns(stripped)
             early    == StripUnderscores(unquoted)
             snake    == Lower(SubNonAlnum(early))
         IN  CollapseUnderscores(snake)

_clean_colname(name) ==
    IF name = None THEN <<>>
    ELSE LET stripped == StripSpace(name)
             unquoted == StripQuoteRuns(stripped)
             snake    == Lower(SubNonAlnum(unquoted))
         IN  StripUnderscores(CollapseUnderscores(snake))

(***************************************************************************)
(* Specification SpecNorm: a raw header, normalized once and then again    *)
(***************************************************************************)
MaxNameLen == 4

NameChars == {"'", "\"", " ", "\f", "", "_", "-", "a", "B", "7"}

RawNames == TextsUpTo(NameChars, MaxNameLen) \cup {None}

NoBuild == [drop_strict |-> FALSE]

NormInit ==
    /\ pc = "start"
    /\ arg \in RawNames
    /\ res = [once |-> <<>>, twice |-> <<>>]
    /\ build = NoBuild

NormOnce ==
    /\ pc = "start"
    /\ pc' = "once"
    /\ res' = [res EXCEPT !.once = _clean_colname(arg)]
    /\ UNCHANGED <<arg, build>>

NormTwice ==
    /\ pc = "once"
    /\ pc' = "twice"
    /\ res' = [res EXCEPT !.twice = _clean_colname(res.once)]
    /\ UNCHANGED <<arg, build>>

NormNext == NormOnce \/ NormTwice

SpecNorm == NormInit /\ [][NormNext]_vars

\* the canonical form: [0-9a-z_] only, no "_" first, last or doubled
IsCanonical(s) ==
    /\ \A i \in DOMAIN s : s[i] \in Digits \cup Range(Lowers) \cup {"_"}
    /\ s # <<>> => s[1] # "_" /\ s[Len(s)] # "_"
    /\ \A i \in 1..(Len(s) - 1) : ~(s[i] = "_" /\ s[i + 1] = "_")

\* C8: _clean_colname is idempotent: for every raw name (and None), cleaning
\* the cleaned name again returns the cleaned name.
C8_CleanColnameIdempotent ==
    pc = "twice" => res.twice = res.once

\* a name with a quote, a space and "_" in it whose cleaned form is not empty
\* and differs from it, cleaned twice
C8_Witness ==
    /\ pc = "twice"
    /\ arg # None
    /\ \E i \in DOMAIN arg : IsQuote(arg[i])
    /\ \E i \in DOMAIN arg : arg[i] = "_"
    /\ res.once # <<>>
    /\ res.once # arg

\* every cleaned name is canonical
CleanColnameCanonical ==
    pc \in {"once", "twice"} => IsCanonical(res.once)

(***************************************************************************)
(* Cells and frames                                                        *)
(*                                                                         *)
(* A cell is Null or a text.  A cell of an Int64 column is the canonical   *)
(* decimal text of its integer (no leading zeros, "-" for negatives), so   *)
(* that a cast is a conversion and not the identity.  The loader's frame   *)
(* is the sequence of its columns, each [name, dtype, cells].              *)
(***************************************************************************)
\* a missing value (not a text: its one element is no character)
Null == <<"null">>

\* .str.replace_all(r"^[\'\"]+|[\'\"]+$", "").str.strip_chars() on one cell:
\* the quote runs at the two ends first, the whitespace at the two ends next
CleanCell(cell) ==
    IF cell = Null THEN Null ELSE strip_chars(StripQuoteRuns(cell))

_normalize_df_strings(df) ==
    [i \in DOMAIN df |->
        IF df[i].dtype = "Utf8"
        THEN [df[i] EXCEPT !.cells =
                [j \in DOMAIN df[i].cells |-> CleanCell(df[i].cells[j])]]
        ELSE df[i]]

(***************************************************************************)
(* Specification SpecCells: a frame with one string cell, cleaned          *)
(***************************************************************************)
MaxCellLen == 4

CellChars == {"'", "\"", " ", "", "", "x", "1"}

JobName == <<"j", "o", "b">>
RunsName == <<"j", "o", "b", "_", "r", "u", "n", "s">>
MinutesName == <<"t", "o", "t", "a", "l", "_", "m", "i", "n", "u", "t", "e", "s">>

CellFrames ==
    {<< [name |-> JobName, dtype |-> "Utf8", cells |-> <<c>>],
        [name |-> RunsName, dtype |-> "Int64", cells |-> <<n>>] >> :
        c \in TextsUpTo(CellChars, MaxCellLen) \cup {Null},
        n \in {Null, <<"1", "2">>}}

CellsInit ==
    /\ pc = "start"
    /\ arg \in CellFrames
    /\ res = <<>>
    /\ build = NoBuild

CellsNormalize ==
    /\ pc = "start"
    /\ pc' = "cleaned"
    /\ res' = _normalize_df_strings(arg)
    /\ UNCHANGED <<arg, build>>

CellsNext == CellsNormalize

SpecCells == CellsInit /\ [][CellsNext]_vars

\* the text neither begins nor ends with a character of bad
NoneAtEnds(bad, s) == s = <<>> \/ (s[1] \notin bad /\ s[Len(s)] \notin bad)

\* C7: after _normalize_df_strings no string cell begins or ends with a quote
\* character or with whitespace (what strip_chars takes for whitespace),
\* whatever the raw cell was.
C7_NoSurroundingQuotesOrSpace ==
    pc = "cleaned" =>
        \A i \in DOMAIN res : \A j \in DOMAIN res[i].cells :
            (res[i].dtype = "Utf8" /\ res[i].cells[j] # Null) =>
                /\ NoneAtEnds(Quotes, res[i].cells[j])
                /\ NoneAtEnds(TrimChars, res[i].cells[j])

\* what the cleaner does guarantee: no whitespace at either end, the other
\* columns untouched, and no quote at either end of a cell whose raw text had
\* no whitespace outside its quotes
CellsCleanedAsCoded ==
    pc = "cleaned" =>
        /\ res[2] = arg[2]
        /\ res[1].cells[1] # Null => NoneAtEnds(TrimChars, res[1].cells[1])
        /\ (arg[1].cells[1] # Null /\ NoneAtEnds(TrimChars, arg[1].cells[1])
                /\ NoneAtEnds(TrimChars, StripQuoteRuns(arg[1].cells[1])))
            => NoneAtEnds(Quotes, res[1].cells[1])

(***************************************************************************)
(* load_and_clean_csv                                                      *)
(***************************************************************************)
IsDigit(ch) == ch \in Digits

\* -?[0-9]+
IsIntSyntax(s) ==
    LET digits == IF s # <<>> /\ Head(s) = "-" THEN Tail(s) ELSE s
    IN  digits # <<>> /\ \A i \in DOMAIN digits : IsDigit(digits[i])

DigitOrder == <<"0", "1", "2", "3", "4", "5", "6", "7", "8", "9">>

DigitValue(ch) == (CHOOSE i \in DOMAIN DigitOrder : DigitOrder[i] = ch) - 1

\* a <= b for two digit texts without leading zeros
DigitsLeq(a, b) ==
    \/ Len(a) < Len(b)
    \/ /\ Len(a) = Len(b)
       /\ \/ a = b
          \/ \E i \in DOMAIN a :
                /\ \A j \in 1..(i - 1) : a[j] = b[j]
                /\ DigitValue(a[i]) < DigitValue(b[i])

\* 2^63 - 1 and 2^63, the largest magnitudes of a positive and of a negative
\* 64-bit integer
Int64Max == <<"9","2","2","3","3","7","2","0","3","6","8","5","4","7","7","5","8","0","7">>
Int64MinMagnitude == <<"9","2","2","3","3","7","2","0","3","6","8","5","4","7","7","5","8","0","8">>

\* the integer of the text lies in [-2^63, 2^63 - 1]
InInt64Range(s) ==
    LET negative == Head(s) = "-"
        nonzero  == LStrip(IF negative THEN Tail(s) ELSE s, {"0"})
    IN  DigitsLeq(nonzero, IF negative THEN Int64MinMagnitude ELSE Int64Max)

\* the texts a strict cast of a string to Int64 accepts: -?[0-9]+ of an
\* integer that 64 bits hold
IsIntText(s) == IsIntSyntax(s) /\ InInt64Range(s)

\* the integer a text is cast to, as its canonical decimal text
IntOfText(s) ==
    LET negative == Head(s) = "-"
        digits   == IF negative THEN Tail(s) ELSE s
        nonzero  == LStrip(digits, {"0"})
    IN  IF nonzero = <<>> THEN <<"0">>
        ELSE IF negative THEN <<"-">> \o nonzero ELSE nonzero

\* pl.col(c).cast(pl.Int64) on one column, strict: [ok, col]
CastInt64(col) ==
    IF col.dtype = "Int64" THEN [ok |-> TRUE, col |-> col]
    ELSE IF \A j \in DOMAIN col.cells : col.cells[j] = Null \/ IsIntText(col.cells[j])
    THEN [ok |-> TRUE,
          col |-> [col EXCEPT !.dtype = "Int64",
                              !.cells = [j \in DOMAIN col.cells |->
                                  IF col.cells[j] = Null THEN Null
                                  ELSE IntOfText(col.cells[j])]]]
    ELSE [ok |-> FALSE, col |-> col]

\* .str.replace_all(r"[^0-9-]+", "") on one cell
KeepDigitsAndMinus(cell) ==
    IF cell = Null THEN Null
    ELSE SelectSeq(cell, LAMBDA ch : IsDigit(ch) \/ ch = "-")

\* pl.col(c).cast(pl.Utf8).str.replace_all(r"[^0-9-]+", "") on one column
StrippedColumn(col) ==
    [col EXCEPT !.dtype = "Utf8",
                !.cells = [j \in DOMAIN col.cells |-> KeepDigitsAndMinus(col.cells[j])]]

\* one round of the loop over ("total_minutes", "job_runs"): the try, and in
\* the except branch the second cast, which nothing catches
CoerceNumeric(state, numeric) ==
    IF state.error # "none" THEN state
    ELSE IF ~\E i \in DOMAIN state.frame : state.frame[i].name = numeric THEN state
    ELSE LET i      == CHOOSE k \in DOMAIN state.frame : state.frame[k].name = numeric
             first  == CastInt64(state.frame[i])
             second == CastInt64(StrippedColumn(state.frame[i]))
         IN  IF first.ok
             THEN [state EXCEPT !.frame[i] = first.col]
             ELSE IF second.ok
             THEN [state EXCEPT !.frame[i] = second.col]
             ELSE [state EXCEPT !.error = "InvalidOperationError"]

\* df.rename({orig: _clean_colname(orig)}): two headers with one cleaned name
\* are a duplicate column
RenamedFrame(df) == [i \in DOMAIN df |-> [df[i] EXCEPT !.name = _clean_colname(df[i].name)]]

HasDuplicateNames(df) ==
    \E i, j \in DOMAIN df : i # j /\ df[i].name = df[j].name

load_and_clean_csv(path) ==
    IF ~path.exists THEN [error |-> "FileNotFoundError", frame |-> <<>>]
    ELSE LET renamed == RenamedFrame(path.frame)
         IN  IF HasDuplicateNames(renamed)
             THEN [error |-> "DuplicateError", frame |-> <<>>]
             ELSE LET cleaned == [error |-> "none", frame |-> _normalize_df_strings(renamed)]
                      done    == CoerceNumeric(CoerceNumeric(cleaned, MinutesName), RunsName)
                  IN  IF done.error = "none" THEN done
                      ELSE [error |-> done.error, frame |-> <<>>]

(***************************************************************************)
(* Specification SpecLoad: a file as pl.read_csv reads it, loaded          *)
(***************************************************************************)
MaxLoadRows == 2

RawHeaders ==
    { <<"'", "J", "o", "b">>,
      <<"T", "o", "t", "a", "l", " ", "m", "i", "n", "u", "t", "e", "s">>,
      <<"\"", "J", "o", "b", " ", "r", "u", "n", "s", "\"">>,
      MinutesName }

\* twenty nines, an integer beyond 2^63 - 1
TooLong == [i \in 1..20 |-> "9"]

\* cells of a column read as strings, and of a column read as integers
RawStringCells ==
    { Null, <<"1", "2">>, <<"'", "1", "2", "'">>, <<"1", ",", "2">>,
      <<"1", "-", "2">>, <<"7", " ", "m", "i", "n">>, TooLong }
RawIntCells == { Null, <<"1", "2">>, <<"-", "3">> }

SeqsOfLen(S, n) == [1..n -> S]

\* read_csv infers Int64 for a column all of whose cells are integers, so a
\* string column holds at least one cell that is not of the form -?[0-9]+
RawColumns(n) ==
    {[name |-> h, dtype |-> "Utf8", cells |-> cs] :
        h \in RawHeaders,
        cs \in {c \in SeqsOfLen(RawStringCells, n) :
                  \E j \in 1..n : c[j] # Null /\ ~IsIntSyntax(c[j])}}
    \cup
    {[name |-> h, dtype |-> "Int64", cells |-> cs] :
        h \in RawHeaders, cs \in SeqsOfLen(RawIntCells, n)}

LoadInit ==
    /\ pc = "start"
    /\ \/ arg = [exists |-> FALSE, frame |-> <<>>]
       \/ \E n \in 1..MaxLoadRows : \E c1, c2 \in RawColumns(n) :
            /\ c1.name # c2.name
            /\ arg = [exists |-> TRUE, frame |-> <<c1, c2>>]
    /\ res = [error |-> "none", frame |-> <<>>]
    /\ build = NoBuild

Load ==
    /\ pc = "start"
    /\ pc' = "loaded"
    /\ res' = load_and_clean_csv(arg)
    /\ UNCHANGED <<arg, build>>

LoadNext == Load

SpecLoad == LoadInit /\ [][LoadNext]_vars

IsNumericName(n) == n \in {MinutesName, RunsName}

\* C6: load_and_clean_csv never fails because of numeric coercion: for an
\* existing file whose headers stay distinct, the loader returns a table, and a
\* numeric column it could not cast either way is returned as it was cleaned.
C6_CoercionNeverFatal ==
    (pc = "loaded" /\ arg.exists /\ ~HasDuplicateNames(RenamedFrame(arg.frame))) =>
        /\ res.error = "none"
        /\ \A i \in DOMAIN res.frame :
              (IsNumericName(res.frame[i].name) /\ res.frame[i].dtype # "Int64") =>
                  res.frame[i] = _normalize_df_strings(RenamedFrame(arg.frame))[i]

\* what the loader does do: a table it returns has its known numeric columns
\* as Int64, and it raises exactly when some cell of one, stripped of every
\* character but digits and "-", is still no integer
LoadCoercionAsCoded ==
    (pc = "loaded" /\ arg.exists /\ ~HasDuplicateNames(RenamedFrame(arg.frame))) =>
        LET cleaned == _normalize_df_strings(RenamedFrame(arg.frame))
            \* the first cast succeeds and the fallback is never tried
            firstOk(col) == \A j \in DOMAIN col.cells :
                               col.dtype = "Int64" \/ col.cells[j] = Null
                                   \/ IsIntText(col.cells[j])
            \* the loop stops at the first column it cannot coerce
            raises == \/ \E i \in DOMAIN cleaned :
                            cleaned[i].name = MinutesName /\ ~firstOk(cleaned[i])
                               /\ \E j \in DOMAIN cleaned[i].cells :
                                     cleaned[i].cells[j] # Null
                                        /\ ~IsIntText(KeepDigitsAndMinus(cleaned[i].cells[j]))
                      \/ \E i \in DOMAIN cleaned :
                            cleaned[i].name = RunsName /\ ~firstOk(cleaned[i])
                               /\ \E j \in DOMAIN cleaned[i].cells :
                                     cleaned[i].cells[j] # Null
                                        /\ ~IsIntText(KeepDigitsAndMinus(cleaned[i].cells[j]))
        IN  /\ (res.error = "InvalidOperationError") <=> raises
            /\ res.error \in {"none", "InvalidOperationError"}
            /\ res.error = "none" =>
                  \A i \in DOMAIN res.frame :
                      IsNumericName(res.frame[i].name) => res.frame[i].dtype = "Int64"

(***************************************************************************)
(* Tables of the merge, the filter and the sorter                          *)
(*                                                                         *)
(* A table is [columns, rows]: the column names in order (plain strings)   *)
(* and the rows in order, each a function from the column names to cells.  *)
(***************************************************************************)
Names(t) == Range(t.columns)

\* the numbers of a finite set in increasing order
RECURSIVE Ascending(_)
Ascending(S) ==
    IF S = {} THEN <<>>
    ELSE LET least == CHOOSE i \in S : \A j \in S : i <= j
         IN  <<least>> \o Ascending(S \ {least})

\* the concatenation of a sequence of sequences
RECURSIVE Flatten(_)
Flatten(ss) == IF ss = <<>> THEN <<>> ELSE Head(ss) \o Flatten(Tail(ss))

HasDuplicates(seq) == \E i, j \in DOMAIN seq : i # j /\ seq[i] = seq[j]

(***************************************************************************)
(* merge_usage_performance, with the default on and how                    *)
(***************************************************************************)
\* on=("job", "workflow")
keys == <<"job", "workflow">>

\* suffix = "_perf"
suffix == "_perf"

\* the suffix DataFrame.join gives a right column whose name the left has
join_suffix == "_right"

\* to_drop.extend(["runner_type", "runner_labels"])
Denylist == <<"runner_type", "runner_labels">>

IsKey(c) == c \in Range(keys)

\* perf_renames applied to one column name of performance
PerfRenamed(usage, c) ==
    IF ~IsKey(c) /\ c \in Names(usage) THEN c \o suffix ELSE c

\* performance.rename(perf_renames)
RenamedPerformance(usage, performance) ==
    [columns |-> [i \in DOMAIN performance.columns |->
                    PerfRenamed(usage, performance.columns[i])],
     rows    |-> [r \in DOMAIN performance.rows |->
                    [c \in {PerfRenamed(usage, d) : d \in Names(performance)} |->
                        LET d == CHOOSE e \in Names(performance) : PerfRenamed(usage, e) = c
                        IN  performance.rows[r][d]]]]

\* the name a non-key column of the right table has in the joined table
JoinedName(left, c) == IF c \in Names(left) THEN c \o join_suffix ELSE c

\* two rows join when every key is non-null and equal (nulls never match)
KeysMatch(u, p) == \A k \in Range(keys) : u[k] # Null /\ u[k] = p[k]

\* the sequences that hold every element of S once
Orderings(S) == {f \in [1..Cardinality(S) -> S] : Range(f) = S}

\* the frame whose rows a full join walks in order (the probe side)
Probes == {"left", "right"}

\* The join is called without maintain_order, so its row order is the
\* library's: it walks one of the two frames (probe) and appends the rows of
\* the other that matched nothing as its hash table yields them (hash: an
\* order of the rows of that frame, of which the place of the first row of
\* each key counts)
JoinOrders(left, right) ==
    LET n == IF Len(left.rows) > Len(right.rows) THEN Len(left.rows) ELSE Len(right.rows)
    IN  {[probe |-> p, hash |-> h] : p \in Probes, h \in Orderings(1..n)}

\* the rows of a frame at the indices of rest as a hash table on the keys
\* yields them: the rows of one key together, in their order, the keys in the
\* order of hash
HashOrder(rows, rest, hash) ==
    LET SameKeys(i, j) == \A k \in Range(keys) : rows[i][k] = rows[j][k]
        First(j) == CHOOSE i \in rest :
                        SameKeys(i, j) /\ \A m \in rest : SameKeys(m, j) => i <= m
    IN  Flatten([k \in DOMAIN hash |-> Ascending({j \in rest : First(j) = hash[k]})])

\* left.join(right, on=keys, how="outer", coalesce=True): the rows of the
\* probe frame in order, each with its matches in the other frame or padded
\* with nulls, then the rows of the other frame that matched nothing
JoinOuter(left, right, order) ==
    LET rightCols == SelectSeq(right.columns, LAMBDA c : ~IsKey(c))
        columns   == left.columns \o [i \in DOMAIN rightCols |-> JoinedName(left, rightCols[i])]
        SourceOf(c) == CHOOSE d \in Range(rightCols) : JoinedName(left, d) = c
        Pair(u, p) ==
            [c \in Range(columns) |->
                IF c \in Names(left) THEN u[c] ELSE p[SourceOf(c)]]
        LeftOnly(u) ==
            [c \in Range(columns) |-> IF c \in Names(left) THEN u[c] ELSE Null]
        RightOnly(p) ==
            [c \in Range(columns) |->
                IF IsKey(c) THEN p[c]
                ELSE IF c \in Names(left) THEN Null ELSE p[SourceOf(c)]]
        RightMatches(u) ==
            Ascending({j \in DOMAIN right.rows : KeysMatch(u, right.rows[j])})
        LeftMatches(p) ==
            Ascending({i \in DOMAIN left.rows : KeysMatch(left.rows[i], p)})
        RowsOfLeft(u) ==
            IF RightMatches(u) = <<>> THEN <<LeftOnly(u)>>
            ELSE [m \in DOMAIN RightMatches(u) |-> Pair(u, right.rows[RightMatches(u)[m]])]
        RowsOfRight(p) ==
            IF LeftMatches(p) = <<>> THEN <<RightOnly(p)>>
            ELSE [m \in DOMAIN LeftMatches(p) |-> Pair(left.rows[LeftMatches(p)[m]], p)]
        unmatchedRight ==
            HashOrder(right.rows,
                      {j \in DOMAIN right.rows : LeftMatches(right.rows[j]) = <<>>},
                      order.hash)
        unmatchedLeft ==
            HashOrder(left.rows,
                      {i \in DOMAIN left.rows : RightMatches(left.rows[i]) = <<>>},
                      order.hash)
    IN  [columns |-> columns,
         rows    |->
            IF order.probe = "left"
            THEN Flatten([i \in DOMAIN left.rows |-> RowsOfLeft(left.rows[i])])
                   \o [m \in DOMAIN unmatchedRight |-> RightOnly(right.rows[unmatchedRight[m]])]
            ELSE Flatten([j \in DOMAIN right.rows |-> RowsOfRight(right.rows[j])])
                   \o [m \in DOMAIN unmatchedLeft |-> LeftOnly(left.rows[unmatchedLeft[m]])]]

\* pl.coalesce(pl.col(perf_c), pl.col(c)).alias(c) on the whole table
CoalesceInto(t, c, perf_c) ==
    [t EXCEPT !.rows = [r \in DOMAIN t.rows |->
        [t.rows[r] EXCEPT ![c] = IF t.rows[r][perf_c] # Null
                                 THEN t.rows[r][perf_c] ELSE t.rows[r][c]]]]

\* the loop over usage.columns from position i on: [merged, to_drop]
RECURSIVE CoalesceLoop(_, _, _)
CoalesceLoop(usageColumns, i, acc) ==
    IF i > Len(usageColumns) THEN acc
    ELSE LET c      == usageColumns[i]
             perf_c == c \o suffix
         IN  IF IsKey(c) \/ perf_c \notin Names(acc.merged)
             THEN CoalesceLoop(usageColumns, i + 1, acc)
             ELSE CoalesceLoop(usageColumns, i + 1,
                     [merged  |-> CoalesceInto(acc.merged, c, perf_c),
                      to_drop |-> Append(acc.to_drop, perf_c)])

\* merged.drop(to_drop) once every name of to_drop is known to be a column,
\* or under a drop that ignores the names that are none
DropColumns(t, to_drop) ==
    LET kept == SelectSeq(t.columns, LAMBDA c : c \notin Range(to_drop))
    IN  [columns |-> kept,
         rows    |-> [r \in DOMAIN t.rows |-> [c \in Range(kept) |-> t.rows[r][c]]]]

Failed(error) == [error |-> error, table |-> [columns |-> <<>>, rows |-> <<>>]]

\* drop_strict is the build's DataFrame.drop: TRUE when it raises on a name
\* that is no column (strict=True, the default of polars 1.x), FALSE when it
\* ignores the name; order is the row order the join takes
merge_usage_performance(usage, performance, drop_strict, order) ==
    IF \E k \in Range(keys) : k \notin Names(usage) /\ k \notin Names(performance)
    THEN Failed("KeyError")
    ELSE LET renamed == RenamedPerformance(usage, performance)
         IN  IF HasDuplicates(renamed.columns)
             THEN Failed("DuplicateError")
             ELSE IF \E k \in Range(keys) : k \notin Names(usage) \/ k \notin Names(renamed)
             THEN Failed("ColumnNotFoundError:join")
             ELSE LET joined == JoinOuter(usage, renamed, order)
                  IN  IF HasDuplicates(joined.columns)
                      THEN Failed("DuplicateError")
                      ELSE LET looped  == CoalesceLoop(usage.columns, 1,
                                              [merged |-> joined, to_drop |-> <<>>])
                               to_drop == looped.to_drop \o Denylist
                           IN  IF drop_strict
                                  /\ \E d \in Range(to_drop) : d \notin Names(looped.merged)
                               THEN Failed("ColumnNotFoundError:drop")
                               ELSE [error |-> "none",
                                     table |-> DropColumns(looped.merged, to_drop)]

(***************************************************************************)
(* Specification SpecMerge: a usage and a performance table, merged        *)
(*                                                                         *)
(* Two families of inputs.  The schema family takes every choice of        *)
(* columns on either side (at least one key each) with one full row,       *)
(* under either build of DataFrame.drop.  The row family keeps both keys   *)
(* and usage's denylisted columns, so that the drop succeeds under the     *)
(* strict build too, and varies the rows: key tuples that match, differ    *)
(* or are null, and cells that are null.  A non-null cell names its        *)
(* table, row and column, so that the origin of every merged value can be  *)
(* read off.                                                               *)
(***************************************************************************)
MaxUsageRows == 2
MaxPerfRows == 1

Val(side, i, c) == <<side, ToString(i), c>>

\* the subsequences of a sequence
SubSeqsOf(seq) == {SelectSeq(seq, LAMBDA c : c \in S) : S \in SUBSET Range(seq)}

KeyTuples == { <<<<"a">>, <<"w">>>>, <<<<"b">>, <<"w">>>>, <<<<"a">>, <<"v">>>>, <<Null, <<"w">>>> }

\* the rows a table with these columns may have at position i: any key tuple,
\* and Null in any of the nullable columns
RowChoices(side, i, columns, nullable) ==
    {[c \in Range(columns) |->
        IF c = "job" THEN kt[1]
        ELSE IF c = "workflow" THEN kt[2]
        ELSE IF c \in nulls THEN Null ELSE Val(side, i, c)] :
        kt \in KeyTuples, nulls \in SUBSET (Range(columns) \cap nullable)}

RECURSIVE RowSeqs(_, _, _, _)
RowSeqs(side, n, columns, nullable) ==
    IF n = 0 THEN {<<>>}
    ELSE LET shorter == RowSeqs(side, n - 1, columns, nullable)
         IN  shorter \cup {Append(t, r) :
                 t \in {u \in shorter : Len(u) = n - 1},
                 r \in RowChoices(side, n, columns, nullable)}

FullRow(side, columns) ==
    [c \in Range(columns) |->
        IF c = "job" THEN <<"a">>
        ELSE IF c = "workflow" THEN <<"w">>
        ELSE Val(side, 1, c)]

\* a table of one full row
OneRowTable(side, columns) ==
    [columns |-> columns, rows |-> <<FullRow(side, columns)>>]

SchemaUsages ==
    {OneRowTable("u", kc \o nc) :
        kc \in SubSeqsOf(keys) \ {<<>>},
        nc \in SubSeqsOf(<<"x", "x_perf", "runner_type", "runner_labels">>)}

SchemaPerformances ==
    {OneRowTable("p", kc \o nc) :
        kc \in SubSeqsOf(keys) \ {<<>>},
        nc \in SubSeqsOf(<<"x", "x_perf", "y", "runner_type", "runner_labels">>)}

RowUsages ==
    UNION {{[columns |-> keys \o nc \o Denylist, rows |-> rs] :
                rs \in RowSeqs("u", MaxUsageRows, keys \o nc \o Denylist, {"x", "x_perf"})} :
            nc \in {<<>>, <<"x">>, <<"x_perf">>, <<"x", "x_perf">>, <<"x_perf", "x">>}}

RowPerformances ==
    UNION {{[columns |-> keys \o nc, rows |-> rs] :
                rs \in RowSeqs("p", MaxPerfRows, keys \o nc, {"x", "x_perf", "y"})} :
            nc \in SubSeqsOf(<<"x", "x_perf", "y">>)}

MergeInit ==
    /\ pc = "start"
    /\ res = Failed("none")
    /\ \/ /\ build = [drop_strict |-> TRUE]
          /\ arg \in {[usage |-> u, performance |-> p] :
                        u \in RowUsages, p \in RowPerformances}
       \/ /\ build \in {[drop_strict |-> b] : b \in BOOLEAN}
          /\ arg \in {[usage |-> u, performance |-> p] :
                        u \in SchemaUsages, p \in SchemaPerformances}

Merge ==
    /\ pc = "start"
    /\ pc' = "merged"
    /\ \E order \in JoinOrders(arg.usage, arg.performance) :
          res' = merge_usage_performance(arg.usage, arg.performance, build.drop_strict, order)
    /\ UNCHANGED <<arg, build>>

MergeNext == Merge

SpecMerge == MergeInit /\ [][MergeNext]_vars

Merged == pc = "merged" /\ res.error = "none"

KeyTupleOf(r) == [k \in Range(keys) |-> r[k]]

RowsOf(t) == Range(t.rows)

\* the rows of a table with the key tuple of the merged row r
SameKey(t, r) == {q \in RowsOf(t) : KeyTupleOf(q) = KeyTupleOf(r)}

\* the non-key columns of both inputs that the denylist does not remove
Colliding ==
    {c \in Names(arg.usage) \cap Names(arg.performance) :
        ~IsKey(c) /\ c \notin Range(Denylist)}

\* the values the coalesce law allows column c of the merged row r
Coalesced(r, c) ==
    LET us == SameKey(arg.usage, r)
        ps == SameKey(arg.performance, r)
    IN  IF us # {} /\ ps # {} /\ \A k \in Range(keys) : r[k] # Null
        THEN {IF p[c] # Null THEN p[c] ELSE u[c] : u \in us, p \in ps}
        ELSE {u[c] : u \in us} \cup {p[c] : p \in ps}

CoalesceLaw ==
    \A c \in Colliding :
        /\ c \in Names(res.table)
        /\ (c \o suffix) \notin Names(res.table)
        /\ \A r \in RowsOf(res.table) : r[c] \in Coalesced(r, c)

NoRowLoss ==
    /\ \A q \in RowsOf(arg.usage) \cup RowsOf(arg.performance) :
          \E r \in RowsOf(res.table) : KeyTupleOf(r) = KeyTupleOf(q)
    /\ \A r \in RowsOf(res.table) :
          /\ SameKey(arg.usage, r) = {} =>
                \A c \in (Names(arg.usage) \ Names(arg.performance)) \cap Names(res.table) :
                    r[c] = Null
          /\ SameKey(arg.performance, r) = {} =>
                \A c \in (Names(arg.performance) \ Names(arg.usage)) \cap Names(res.table) :
                    r[c] = Null

UsageColumnsPreserved ==
    /\ \A c \in Names(arg.usage) \ Range(Denylist) : c \in Names(res.table)
    /\ \A u \in RowsOf(arg.usage) :
          \E r \in RowsOf(res.table) :
              /\ KeyTupleOf(r) = KeyTupleOf(u)
              /\ \A c \in Names(arg.usage) \ (Range(Denylist) \cup Range(keys)) :
                    (c \in Names(res.table) /\ c \notin Names(arg.performance)) => r[c] = u[c]

\* C1: when the merge succeeds, every non-key column of both inputs is one
\* output column holding performance's value if non-null, else usage's, and
\* the renamed column is gone.
C1_CoalesceLaw == Merged => CoalesceLaw

\* C2: when both tables have every key, the outer merge keeps every key tuple
\* of either input, and a row whose key tuple is on one side only is null in
\* the columns that only the other side has.
C2_NoRowLoss ==
    (Merged /\ Range(keys) \subseteq Names(arg.usage) \cap Names(arg.performance)) => NoRowLoss

\* C3: the merge fails for a missing key only when the key is in neither
\* table; with workflow in performance only it returns a table whose workflow
\* column holds performance's values.
C3_KeyOnEitherSideSuffices ==
    pc = "merged" =>
        /\ res.error = "KeyError" <=>
              \E k \in Range(keys) : k \notin Names(arg.usage) \cup Names(arg.performance)
        /\ res.error # "ColumnNotFoundError:join"
        /\ (res.error = "none" /\ "workflow" \in Names(arg.performance) \ Names(arg.usage)) =>
              /\ "workflow" \in Names(res.table)
              /\ \A p \in RowsOf(arg.performance) :
                    \E r \in RowsOf(res.table) : r["workflow"] = p["workflow"]

\* C4: whichever of runner_type and runner_labels the inputs have, the final
\* drop does not make the merge fail, and the output has neither column.
C4_DropNeverFails ==
    (pc = "merged" /\ res.error \notin {"KeyError", "DuplicateError", "ColumnNotFoundError:join"}) =>
        /\ res.error = "none"
        /\ Names(res.table) \cap Range(Denylist) = {}

\* C10: when the merge succeeds, every column of usage outside the denylist is
\* an output column, with usage's value wherever performance has no such
\* column, also when usage has a column named like a renamed one (x_perf).
C10_UsageColumnsPreserved == Merged => UsageColumnsPreserved

\* no input column is named like a renamed column
NoSuffixClash ==
    \A c \in Names(arg.usage) \cup Names(arg.performance) :
        (c \o suffix) \notin Names(arg.usage) \cup Names(arg.performance)

\* what the merge does guarantee: a table it returns has no denylisted
\* column, and when no input column is named like a renamed one it obeys the
\* coalesce law, loses no row and keeps usage's columns
MergeAsCoded ==
    Merged =>
        /\ Names(res.table) \cap Range(Denylist) = {}
        /\ NoSuffixClash => (CoalesceLaw /\ NoRowLoss /\ UsageColumnsPreserved)

\* the row order of the join changes the order of the merged rows and nothing
\* else: the columns, the rows as a set and their number are those of the
\* other order
MergeOrderOnlyReorders ==
    pc = "merged" =>
        \A order \in JoinOrders(arg.usage, arg.performance) :
            LET other == merge_usage_performance(arg.usage, arg.performance,
                                                 build.drop_strict, order)
            IN  /\ other.error = res.error
                /\ other.table.columns = res.table.columns
                /\ RowsOf(other.table) = RowsOf(res.table)
                /\ Len(other.table.rows) = Len(res.table.rows)

\* the errors of the merge, each for its cause
MergeErrorsAsCoded ==
    pc = "merged" =>
        /\ res.error = "KeyError" <=>
              \E k \in Range(keys) : k \notin Names(arg.usage) \cup Names(arg.performance)
        /\ res.error = "ColumnNotFoundError:join" =>
              \E k \in Range(keys) : k \notin Names(arg.usage) \cap Names(arg.performance)
        /\ res.error = "ColumnNotFoundError:drop" =>
              /\ build.drop_strict
              /\ \E d \in Range(Denylist) : d \notin Names(arg.usage) \cup Names(arg.performance)

(***************************************************************************)
(* filter_jobs                                                             *)
(***************************************************************************)
\* the text contains the pattern, letters compared without case: (?i)
ContainsNoCase(text, pattern) ==
    \E i \in 1..(Len(text) - Len(pattern) + 1) :
        SubSeq(Lower(text), i, i + Len(pattern) - 1) = Lower(pattern)

\* r"(?i)Cancel|Check bypass"
JobPatterns ==
    { <<"C", "a", "n", "c", "e", "l">>,
      <<"C", "h", "e", "c", "k", " ", "b", "y", "p", "a", "s", "s">> }

\* r"(?i)copilot|fleety"
WorkflowPatterns ==
    { <<"c", "o", "p", "i", "l", "o", "t">>, <<"f", "l", "e", "e", "t", "y">> }

\* ~pl.col(c).str.contains(pattern) on one cell: "true", "false", or "null"
\* for a null cell, whose negation is null too
NotContains(cell, patterns) ==
    IF cell = Null THEN "null"
    ELSE IF \E pt \in patterns : ContainsNoCase(cell, pt) THEN "false"
    ELSE "true"

\* df.filter(~pl.col(c).str.contains(pattern)): the rows whose mask is true;
\* a null mask drops the row
FilterNotContains(t, c, patterns) ==
    [t EXCEPT !.rows = SelectSeq(t.rows, LAMBDA r : NotContains(r[c], patterns) = "true")]

filter_jobs(df) ==
    LET byJob == IF "job" \in Names(df)
                 THEN FilterNotContains(df, "job", JobPatterns)
                 ELSE df
    IN  IF "workflow" \in Names(byJob)
        THEN FilterNotContains(byJob, "workflow", WorkflowPatterns)
        ELSE byJob

(***************************************************************************)
(* Specification SpecFilter: a table, filtered and filtered again          *)
(***************************************************************************)
MaxFilterRows == 2

JobCells ==
    { Null,
      <<"B", "u", "i", "l", "d">>,
      <<"C", "A", "N", "C", "E", "L", " ", "r", "u", "n">>,
      <<"a", " ", "c", "h", "e", "c", "k", " ", "B", "y", "p", "a", "s", "s">>,
      <<"C", "a", "n", "c", " ", "e", "l">> }

WorkflowCells ==
    { Null,
      <<"C", "I">>,
      <<"C", "o", "p", "i", "l", "o", "t", " ", "N", "i", "g", "h", "t", "l", "y">>,
      <<"F", "L", "E", "E", "T", "Y">>,
      <<"c", "o", "-", "p", "i", "l", "o", "t">> }

\* the rows at position i of a table with these columns; id tells rows apart
CellRows(i, columns, jobs, workflows) ==
    {[c \in Range(columns) |->
        IF c = "job" THEN j ELSE IF c = "workflow" THEN w ELSE <<ToString(i)>>] :
        j \in jobs, w \in workflows}

RECURSIVE CellRowSeqs(_, _, _, _)
CellRowSeqs(n, columns, jobs, workflows) ==
    IF n = 0 THEN {<<>>}
    ELSE LET shorter == CellRowSeqs(n - 1, columns, jobs, workflows)
         IN  shorter \cup {Append(t, r) :
                 t \in {u \in shorter : Len(u) = n - 1},
                 r \in CellRows(n, columns, jobs, workflows)}

CellTables(n, jobs, workflows) ==
    UNION {{[columns |-> kc \o <<"id">>, rows |-> rs] :
                rs \in CellRowSeqs(n, kc \o <<"id">>, jobs, workflows)} :
            kc \in SubSeqsOf(keys)}

FilterInit ==
    /\ pc = "start"
    /\ arg \in CellTables(MaxFilterRows, JobCells, WorkflowCells)
    /\ res = [once |-> arg, twice |-> arg]
    /\ build = NoBuild

Filter ==
    /\ pc = "start"
    /\ pc' = "filtered"
    /\ res' = [res EXCEPT !.once = filter_jobs(arg)]
    /\ UNCHANGED <<arg, build>>

FilterAgain ==
    /\ pc = "filtered"
    /\ pc' = "refiltered"
    /\ res' = [res EXCEPT !.twice = filter_jobs(res.once)]
    /\ UNCHANGED <<arg, build>>

FilterNext == Filter \/ FilterAgain

SpecFilter == FilterInit /\ [][FilterNext]_vars

\* the column is there, the cell is not null and it contains a pattern
Matches(r, c, patterns) ==
    /\ c \in DOMAIN r
    /\ r[c] # Null
    /\ \E pt \in patterns : ContainsNoCase(r[c], pt)

\* C5: filter_jobs removes a row only if its non-null job contains "Cancel" or
\* "Check bypass" or its non-null workflow contains "copilot" or "fleety"; a
\* null job or workflow matches nothing and the row is kept.
C5_NullIsNonMatching ==
    pc = "filtered" =>
        \A r \in RowsOf(arg) :
            (r \in RowsOf(res.once)) <=>
                ~Matches(r, "job", JobPatterns) /\ ~Matches(r, "workflow", WorkflowPatterns)

\* what the filter does do: it keeps, in order, exactly the rows whose job
\* and workflow (where the column exists) are non-null and contain no
\* pattern, and filtering again changes nothing
FilterAsCoded ==
    /\ pc \in {"filtered", "refiltered"} =>
          /\ res.once.columns = arg.columns
          /\ res.once.rows =
                SelectSeq(arg.rows, LAMBDA r :
                    /\ ~Matches(r, "job", JobPatterns)
                    /\ ~Matches(r, "workflow", WorkflowPatterns)
                    /\ \A c \in Range(keys) \cap DOMAIN r : r[c] # Null)
    /\ pc = "refiltered" => res.twice = res.once

(***************************************************************************)
(* sort_by_workflow_and_job                                                *)
(***************************************************************************)
\* the characters of the model in the order of their code points
CodeOrder ==
    <<"\t", "\n", "", "\f", "\r", "", "", "", "",
      " ", "\"", "'", ",", "-", "/",
      "0", "1", "2", "3", "4", "5", "6", "7", "8", "9">>
    \o Uppers \o <<"_">> \o Lowers

Code(ch) == CHOOSE i \in DOMAIN CodeOrder : CodeOrder[i] = ch

\* a < b for texts, by code point, a proper prefix first
RECURSIVE TextLess(_, _)
TextLess(a, b) ==
    IF b = <<>> THEN FALSE
    ELSE IF a = <<>> THEN TRUE
    ELSE IF Head(a) = Head(b) THEN TextLess(Tail(a), Tail(b))
    ELSE Code(Head(a)) < Code(Head(b))

\* a < b for cells: nulls first (nulls_last=False)
CellLess(a, b) ==
    IF b = Null THEN FALSE
    ELSE IF a = Null THEN TRUE
    ELSE TextLess(a, b)

\* a < b for rows, by the columns by in order
RECURSIVE RowLess(_, _, _)
RowLess(a, b, by) ==
    IF by = <<>> THEN FALSE
    ELSE IF a[Head(by)] = b[Head(by)] THEN RowLess(a, b, Tail(by))
    ELSE CellLess(a[Head(by)], b[Head(by)])

\* r put into the sorted rows after every row that is not greater
RECURSIVE InsertRow(_, _, _)
InsertRow(r, sorted, by) ==
    IF sorted = <<>> THEN <<r>>
    ELSE IF RowLess(r, Head(sorted), by) THEN <<r>> \o sorted
    ELSE <<Head(sorted)>> \o InsertRow(r, Tail(sorted), by)

\* The sort is called without maintain_order, so the order of the rows with
\* equal keys is the library's: ties is an order of the rows, any one
TieOrders(df) == Orderings(1..Len(df.rows))

\* df.sort(by): ascending, the rows with equal keys in the order ties has them
RECURSIVE SortRows(_, _, _)
SortRows(rows, by, ties) ==
    IF ties = <<>> THEN <<>>
    ELSE InsertRow(rows[ties[Len(ties)]],
                   SortRows(rows, by, SubSeq(ties, 1, Len(ties) - 1)), by)

sort_by_workflow_and_job(df, ties) ==
    IF "workflow" \in Names(df) /\ "job" \in Names(df)
    THEN [df EXCEPT !.rows = SortRows(df.rows, <<"workflow", "job">>, ties)]
    ELSE df

(***************************************************************************)
(* Specification SpecSort: a table, sorted and sorted again                *)
(***************************************************************************)
MaxSortRows == 3

SortJobCells == { Null, <<"a">>, <<"a", "b">>, <<"B">> }

SortWorkflowCells == { Null, <<"a">>, <<"B">> }

SortInit ==
    /\ pc = "start"
    /\ arg \in CellTables(MaxSortRows, SortJobCells, SortWorkflowCells)
    /\ res = [once |-> arg, twice |-> arg]
    /\ build = NoBuild

Sort ==
    /\ pc = "start"
    /\ pc' = "sorted"
    /\ \E ties \in TieOrders(arg) :
          res' = [res EXCEPT !.once = sort_by_workflow_and_job(arg, ties)]
    /\ UNCHANGED <<arg, build>>

SortAgain ==
    /\ pc = "sorted"
    /\ pc' = "resorted"
    /\ \E ties \in TieOrders(res.once) :
          res' = [res EXCEPT !.twice = sort_by_workflow_and_job(res.once, ties)]
    /\ UNCHANGED <<arg, build>>

SortNext == Sort \/ SortAgain

SpecSort == SortInit /\ [][SortNext]_vars

\* (workflow, job) of a is not after that of b: workflow first, then job,
\* texts by code point (upper case before lower case), null before any text
NotAfter(a, b) ==
    \/ CellLess(a["workflow"], b["workflow"])
    \/ /\ a["workflow"] = b["workflow"]
       /\ (a["job"] = b["job"] \/ CellLess(a["job"], b["job"]))

\* the same rows, each as often: the rows differ in id, so as sets
SameRows(s, t) == Len(s.rows) = Len(t.rows) /\ RowsOf(s) = RowsOf(t)

HasBothKeys(t) == Range(keys) \subseteq Names(t)

\* C9: with both columns, the sorted table has the rows of the input, each
\* next row not before the one above by (workflow, job), and sorting it again
\* leaves it as it is; without one of the columns the table comes back as is.
C9_SortedStableUnderResort ==
    /\ (pc \in {"sorted", "resorted"} /\ HasBothKeys(arg)) =>
          /\ res.once.columns = arg.columns
          /\ SameRows(res.once, arg)
          /\ \A i \in 1..(Len(res.once.rows) - 1) :
                NotAfter(res.once.rows[i], res.once.rows[i + 1])
    /\ (pc = "resorted" /\ HasBothKeys(arg)) => res.twice = res.once
    /\ (pc \in {"sorted", "resorted"} /\ ~HasBothKeys(arg)) => res.once = arg

\* each next row of the table is not before the one above
Ordered(t) == \A i \in 1..(Len(t.rows) - 1) : NotAfter(t.rows[i], t.rows[i + 1])

\* what the sorter does guarantee: the rows of the input in an ascending
\* order, and after a second sort the same rows, ascending, with the same
\* (workflow, job) at each place; the rows with equal keys may have changed
\* places.  Without one of the columns nothing moves.
SortAsCoded ==
    /\ (pc \in {"sorted", "resorted"} /\ HasBothKeys(arg)) =>
          /\ res.once.columns = arg.columns
          /\ SameRows(res.once, arg)
          /\ Ordered(res.once)
    /\ (pc = "resorted" /\ HasBothKeys(arg)) =>
          /\ res.twice.columns = arg.columns
          /\ SameRows(res.twice, res.once)
          /\ Ordered(res.twice)
          /\ \A i \in DOMAIN res.once.rows :
                KeyTupleOf(res.twice.rows[i]) = KeyTupleOf(res.once.rows[i])
          /\ (~HasDuplicates([i \in DOMAIN arg.rows |-> KeyTupleOf(arg.rows[i])])
                => res.twice = res.once)
    /\ (pc \in {"sorted", "resorted"} /\ ~HasBothKeys(arg)) =>
          res.once = arg /\ (pc = "resorted" => res.twice = arg)
====
